---- MODULE Spec2Model ----
(***************************************************************************)
(* Model of the KPI engine of src/src/processor.py: calculate_kpis and its *)
(* helpers _calculate_daily_kpis, _calculate_weekly_kpis,                  *)
(* _calculate_monthly_kpis and _calculate_variation.                       *)
(*                                                                         *)
(* A DataFrame is a sequence of rows [timestamp, val].  A float cell is a  *)
(* record [k, n, d]: k = "num" is the exact rational n/d (d > 0, lowest    *)
(* terms), k = "nan" is not-a-number, k = "none" is Python's None.  A      *)
(* datetime64 cell is a record [date, time]: days since 1970-01-01 and     *)
(* seconds since midnight.  An int64 timestamp cell is an integer number   *)
(* of seconds since the epoch.                                             *)
(***************************************************************************)
EXTENDS Integers, Sequences, FiniteSets, TLC

VARIABLES data_arg, timeframe, pc, data, buckets, cur, prev, outcome

vars == <<data_arg, timeframe, pc, data, buckets, cur, prev, outcome>>

\* ------------------------------------------------------------------ bounds
\* Longest input series (number of rows of the caller's DataFrame).
MaxLen == 3

\* Longest input series of the single-day scenario (SpecDaily).
MaxDayLen == 5

\* ------------------------------------------------------------- float cells
NaN == [k |-> "nan", n |-> 0, d |-> 1]

None == [k |-> "none", n |-> 0, d |-> 1]

Abs(x) == IF x < 0 THEN -x ELSE x

RECURSIVE GCD(_, _)
GCD(a, b) == IF b = 0 THEN a ELSE GCD(b, a % b)

\* The rational n/d in lowest terms with a positive denominator.
Rat(n, d) ==
    LET s == IF d < 0 THEN -1 ELSE 1
        g == GCD(Abs(n), Abs(d))
    IN  [k |-> "num", n |-> (s * n) \div g, d |-> (s * d) \div g]

Num(i) == [k |-> "num", n |-> i, d |-> 1]

IsNum(x) == x.k = "num"

\* pd.isna(x): true of NaN (and of None)
IsNa(x) == x.k # "num"

\* float arithmetic: NaN is absorbing
FSub(x, y) == IF IsNum(x) /\ IsNum(y) THEN Rat(x.n * y.d - y.n * x.d, x.d * y.d) ELSE NaN

FAdd(x, y) == IF IsNum(x) /\ IsNum(y) THEN Rat(x.n * y.d + y.n * x.d, x.d * y.d) ELSE NaN

FMul(x, y) == IF IsNum(x) /\ IsNum(y) THEN Rat(x.n * y.n, x.d * y.d) ELSE NaN

\* y is a non-zero number wherever the engine divides
FDiv(x, y) == IF IsNum(x) /\ IsNum(y) THEN Rat(x.n * y.d, x.d * y.n) ELSE NaN

FLess(x, y) == x.n * y.d < y.n * x.d

\* x == 0: false of NaN and of None
FIsZero(x) == IsNum(x) /\ x.n = 0

\* ------------------------------------------------- Series.min / mean / max
\* pandas reductions skip NaN cells; over no cell at all they give NaN.
RECURSIVE Values(_)
Values(rows) ==
    IF rows = <<>> THEN <<>>
    ELSE IF IsNum(Head(rows).val) THEN <<Head(rows).val>> \o Values(Tail(rows))
         ELSE Values(Tail(rows))

RECURSIVE FSum(_)
FSum(vs) == IF vs = <<>> THEN Num(0) ELSE FAdd(Head(vs), FSum(Tail(vs)))

RECURSIVE FMinOf(_)
FMinOf(vs) ==
    IF Len(vs) = 1 THEN vs[1]
    ELSE LET m == FMinOf(Tail(vs)) IN IF FLess(m, Head(vs)) THEN m ELSE Head(vs)

RECURSIVE FMaxOf(_)
FMaxOf(vs) ==
    IF Len(vs) = 1 THEN vs[1]
    ELSE LET m == FMaxOf(Tail(vs)) IN IF FLess(Head(vs), m) THEN m ELSE Head(vs)

ColMin(rows) == LET vs == Values(rows) IN IF vs = <<>> THEN NaN ELSE FMinOf(vs)

ColMean(rows) == LET vs == Values(rows) IN IF vs = <<>> THEN NaN ELSE FDiv(FSum(vs), Num(Len(vs)))

ColMax(rows) == LET vs == Values(rows) IN IF vs = <<>> THEN NaN ELSE FMaxOf(vs)

\* -------------------------------------------------------------- timestamps
DaySeconds == 24 * 60 * 60

\* pd.to_datetime(x, unit='s'): seconds since the epoch to a calendar instant
ToDatetime(s) == [date |-> s \div DaySeconds, time |-> s % DaySeconds]

\* chronological order of two datetime64 cells
TsLeq(a, b) == a.date < b.date \/ (a.date = b.date /\ a.time <= b.time)

\* 0 = Monday .. 6 = Sunday; 1970-01-01 (date 0) was a Thursday
Weekday(date) == (date + 3) % 7

\* Proleptic Gregorian calendar date <<day, month, year>> of a day number,
\* as strftime('%d/%m/%Y') prints it.
CivilFromDays(date) ==
    LET z   == date + 719468
        era == z \div 146097
        doe == z - era * 146097
        yoe == (doe - doe \div 1460 + doe \div 36524 - doe \div 146096) \div 365
        doy == doe - (365 * yoe + yoe \div 4 - yoe \div 100)
        mp  == (5 * doy + 2) \div 153
        dd  == doy - (153 * mp + 2) \div 5 + 1
        mm  == IF mp < 10 THEN mp + 3 ELSE mp - 9
        yy  == yoe + era * 400 + (IF mm <= 2 THEN 1 ELSE 0)
    IN  <<dd, mm, yy>>

\* strftime('%d/%m')
DayMonth(date) == SubSeq(CivilFromDays(date), 1, 2)

\* ------------------------------------------------------------------ inputs
\* Rows a caller's series is drawn from, as (epoch seconds, value): three
\* consecutive days, then days one, two, five and eight weeks later; date 4
\* and date 60 are Mondays, date 0 a Thursday.
EpochRows ==
    { [timestamp |-> 0 * DaySeconds,          val |-> Num(100)],
      [timestamp |-> 0 * DaySeconds + 7200,   val |-> Num(110)],
      [timestamp |-> 1 * DaySeconds + 3600,   val |-> Num(0)],
      [timestamp |-> 1 * DaySeconds + 3600,   val |-> Num(100)],
      [timestamp |-> 2 * DaySeconds + 86399,  val |-> Num(90)],
      [timestamp |-> 2 * DaySeconds + 86399,  val |-> Num(110)],
      [timestamp |-> 9 * DaySeconds + 43200,  val |-> Num(100)],
      [timestamp |-> 9 * DaySeconds + 43200,  val |-> Num(0)],
      [timestamp |-> 14 * DaySeconds + 1,     val |-> Num(110)],
      [timestamp |-> 14 * DaySeconds + 1,     val |-> Num(90)],
      [timestamp |-> 35 * DaySeconds + 600,   val |-> Num(100)],
      [timestamp |-> 60 * DaySeconds + 36000, val |-> Num(110)] }

\* the same rows in a frame whose timestamp column is already datetime64
DatetimeRows == { [timestamp |-> ToDatetime(r.timestamp), val |-> r.val] : r \in EpochRows }

SeqsUpTo(S, n) == UNION { [1..m -> S] : m \in 0..n }

\* granularity codes a caller passes; "Q" and "d" are not recognized
Timeframes == {"D", "W", "M", "Q", "d"}

\* ---------------------------------------------------- calculate_kpis, head
\* lines 45-47: coerce a non-datetime timestamp column on a copy
Coerce(frame) ==
    IF frame.dtype # "datetime64"
    THEN [i \in 1..Len(frame.rows) |->
            [timestamp |-> ToDatetime(frame.rows[i].timestamp), val |-> frame.rows[i].val]]
    ELSE frame.rows

\* the caller's frame after a coercion assigned without data.copy()
ArgAfterCoerceInPlace(frame) ==
    IF frame.dtype # "datetime64"
    THEN [dtype |-> "datetime64", rows |-> Coerce(frame)]
    ELSE frame

\* lines 46-47 and 50: the caller's frame after the coercion and the sort;
\* the column is assigned on a copy and sort_values returns a new frame
ArgAfterCoerce(frame) == frame

RECURSIVE Insert(_, _)
Insert(r, sorted) ==
    IF sorted = <<>> THEN <<r>>
    ELSE IF TsLeq(Head(sorted).timestamp, r.timestamp)
         THEN <<Head(sorted)>> \o Insert(r, Tail(sorted))
         ELSE <<r>> \o sorted

\* SortValues that leaves the rows in the caller's order
SortValuesOmitted(rows) == rows

\* line 50: data.sort_values('timestamp'), ascending
RECURSIVE SortValues(_)
SortValues(rows) ==
    IF rows = <<>> THEN <<>>
    ELSE Insert(rows[Len(rows)], SortValues(SubSeq(rows, 1, Len(rows) - 1)))

\* Dispatch whose final else falls into the daily branch instead of raising
DispatchFallsThrough(tf) ==
    CASE tf = "W" -> "weekly"
      [] tf = "M" -> "monthly"
      [] OTHER    -> "daily"

\* lines 52-59: the branch taken for a granularity code
Dispatch(tf) ==
    CASE tf = "D" -> "daily"
      [] tf = "W" -> "weekly"
      [] tf = "M" -> "monthly"
      [] OTHER    -> "ValueError"

\* --------------------------------------------------------------- resample
\* rows of a frame whose timestamp falls on calendar day `date`
RowsOnDate(rows, date) == SelectSeq(rows, LAMBDA r : r.timestamp.date = date)

\* ResampleDaily that drops the days without rows (a groupby on the date)
ResampleDailyDropEmpty(rows) ==
    IF rows = <<>> THEN <<>>
    ELSE LET first == rows[1].timestamp.date
             last  == rows[Len(rows)].timestamp.date
             all   == [i \in 1..(last - first + 1) |->
                        [timestamp |-> [date |-> first + i - 1, time |-> 0],
                         val |-> ColMean(RowsOnDate(rows, first + i - 1))]]
         IN  SelectSeq(all, LAMBDA b : IsNum(b.val))

\* data.resample('D', on='timestamp')[particle].mean().reset_index():
\* one row per calendar day from the first row's day to the last row's day,
\* labelled with the day's midnight; a day without rows has mean NaN.
ResampleDaily(rows) ==
    IF rows = <<>> THEN <<>>
    ELSE LET first == rows[1].timestamp.date
             last  == rows[Len(rows)].timestamp.date
         IN  [i \in 1..(last - first + 1) |->
                [timestamp |-> [date |-> first + i - 1, time |-> 0],
                 val |-> ColMean(RowsOnDate(rows, first + i - 1))]]

\* 'W-MON' bins are weeks ending on a Monday, closed and labelled on the
\* right: the label of a day is the first Monday on or after it.
WeekLabelStrictlyAfter(date) == date + 7 - Weekday(date)

WeekLabel(date) == date + ((7 - Weekday(date)) % 7)

RowsInWeek(rows, label) == SelectSeq(rows, LAMBDA r : WeekLabel(r.timestamp.date) = label)

\* data.resample('W-MON', on='timestamp')[particle].mean().reset_index()
ResampleWeekly(rows) ==
    IF rows = <<>> THEN <<>>
    ELSE LET first == WeekLabel(rows[1].timestamp.date)
             last  == WeekLabel(rows[Len(rows)].timestamp.date)
         IN  [i \in 1..((last - first) \div 7 + 1) |->
                [timestamp |-> [date |-> first + 7 * (i - 1), time |-> 0],
                 val |-> ColMean(RowsInWeek(rows, first + 7 * (i - 1)))]]

\* ---------------------------------------------------------------- windows
\* A window is a DataFrame: `columns` tells whether it has the particle and
\* timestamp columns at all (pd.DataFrame() has none).
Frame(rows) == [columns |-> TRUE, rows |-> rows]

\* pd.DataFrame()
EmptyDataFrame == [columns |-> FALSE, rows |-> <<>>]

Min2(a, b) == IF a < b THEN a ELSE b

Max2(a, b) == IF a > b THEN a ELSE b

\* frame.tail(n)
TailRows(rows, n) == SubSeq(rows, Len(rows) - n + 1, Len(rows))

\* frame.iloc[-a:-z] for 0 < z < a: positions max(len-a, 0) up to but not
\* including max(len-z, 0)
ILocNeg(rows, a, z) == SubSeq(rows, Max2(Len(rows) - a, 0) + 1, Max2(Len(rows) - z, 0))

\* LastDayData taken as the 24 hours that end at the last record
LastDayDataRolling(rows) ==
    LET last == rows[Len(rows)].timestamp
    IN  SelectSeq(rows, LAMBDA r : \/ r.timestamp.date = last.date
                                   \/ (r.timestamp.date = last.date - 1 /\ r.timestamp.time > last.time))

\* LastDayData comparing the full timestamp, not its date, with last_date
LastDayDataExactMatch(rows) ==
    SelectSeq(rows, LAMBDA r : r.timestamp = [date |-> rows[Len(rows)].timestamp.date, time |-> 0])

\* lines 65-66
LastDayData(rows) == RowsOnDate(rows, rows[Len(rows)].timestamp.date)

\* PrevDayData taken as the latest earlier day that has records
PrevDayDataLatestEarlier(rows) ==
    LET last    == rows[Len(rows)].timestamp.date
        earlier == { rows[i].timestamp.date : i \in DOMAIN rows } \cap (0..(last - 1))
    IN  IF earlier = {} THEN <<>>
        ELSE RowsOnDate(rows, CHOOSE d \in earlier : \A e \in earlier : e <= d)

\* lines 77-78
PrevDayData(rows) == RowsOnDate(rows, rows[Len(rows)].timestamp.date - 1)

\* TooFewDaily letting a single bucket through
TooFewDailyOffByOne(data_daily) == Len(data_daily) < 1

\* line 115
TooFewDaily(data_daily) == Len(data_daily) < 2

\* LastWeekData that stops one bucket short of the end (iloc[-8:-1])
LastWeekDataShifted(data_daily) == ILocNeg(data_daily, 8, 1)

\* line 119
LastWeekData(data_daily) == TailRows(data_daily, Min2(7, Len(data_daily)))

\* PrevWeekData with the first tier taken only above 14 buckets
PrevWeekDataStrict(data_daily) ==
    IF Len(data_daily) > 14 THEN Frame(ILocNeg(data_daily, 14, 7))
    ELSE IF Len(data_daily) >= 8 THEN Frame(ILocNeg(data_daily, 8, 1))
    ELSE EmptyDataFrame

\* lines 122-127
PrevWeekData(data_daily) ==
    IF Len(data_daily) >= 14 THEN Frame(ILocNeg(data_daily, 14, 7))
    ELSE IF Len(data_daily) >= 8 THEN Frame(ILocNeg(data_daily, 8, 1))
    ELSE EmptyDataFrame

\* TooFewWeekly letting a single bucket through
TooFewWeeklyOffByOne(data_weekly) == Len(data_weekly) < 1

\* line 172
TooFewWeekly(data_weekly) == Len(data_weekly) < 2

\* line 176
LastMonthData(data_weekly) == TailRows(data_weekly, Min2(4, Len(data_weekly)))

\* PrevMonthData with the first tier taken only above 8 buckets
PrevMonthDataStrict(data_weekly) ==
    IF Len(data_weekly) > 8 THEN Frame(ILocNeg(data_weekly, 8, 4))
    ELSE IF Len(data_weekly) >= 5 THEN Frame(ILocNeg(data_weekly, 5, 1))
    ELSE EmptyDataFrame

\* lines 179-184
PrevMonthData(data_weekly) ==
    IF Len(data_weekly) >= 8 THEN Frame(ILocNeg(data_weekly, 8, 4))
    ELSE IF Len(data_weekly) >= 5 THEN Frame(ILocNeg(data_weekly, 5, 1))
    ELSE EmptyDataFrame

\* -------------------------------------------------------------- variation
\* CalculateVariation without the pd.isna test
CalculateVariationNoNaTest(current_val, previous_val) ==
    IF previous_val.k = "none" \/ FIsZero(previous_val)
    THEN <<None, None>>
    ELSE LET delta == FSub(current_val, previous_val)
         IN  <<delta, FMul(FDiv(delta, previous_val), Num(100))>>

\* CalculateVariation with the operands of the difference swapped
CalculateVariationSwapped(current_val, previous_val) ==
    IF previous_val.k = "none" \/ IsNa(previous_val) \/ FIsZero(previous_val)
    THEN <<None, None>>
    ELSE LET delta == FSub(previous_val, current_val)
         IN  <<delta, FMul(FDiv(delta, previous_val), Num(100))>>

\* _calculate_variation(current_val, previous_val): <<delta, delta_pct>>
CalculateVariation(current_val, previous_val) ==
    IF previous_val.k = "none" \/ IsNa(previous_val) \/ FIsZero(previous_val)
    THEN <<None, None>>
    ELSE LET delta == FSub(current_val, previous_val)
         IN  <<delta, FMul(FDiv(delta, previous_val), Num(100))>>

\* `previous_x if len(prev) > 0 else None`
PrevOrNone(x, prevRows) == IF Len(prevRows) > 0 THEN x ELSE None

\* ---------------------------------------------------------------- results
RECURSIVE MinDate(_)
MinDate(rows) ==
    IF Len(rows) = 1 THEN rows[1].timestamp.date
    ELSE Min2(rows[1].timestamp.date, MinDate(Tail(rows)))

RECURSIVE MaxDate(_)
MaxDate(rows) ==
    IF Len(rows) = 1 THEN rows[1].timestamp.date
    ELSE Max2(rows[1].timestamp.date, MaxDate(Tail(rows)))

\* line 106: last_date.strftime('%d/%m/%Y')
DayLabel(curRows) == CivilFromDays(curRows[Len(curRows)].timestamp.date)

\* lines 150-151, 163 and 208-209, 221: "{start} - {end}"
RangeLabel(curRows) == DayMonth(MinDate(curRows)) \o DayMonth(MaxDate(curRows))

\* the dict built at lines 96-107, 153-164 and 211-222
KpiDict(curRows, prevRows, label) ==
    LET current_min  == ColMin(curRows)
        current_mean == ColMean(curRows)
        current_max  == ColMax(curRows)
        vmean == CalculateVariation(current_mean, PrevOrNone(ColMean(prevRows), prevRows))
        vmin  == CalculateVariation(current_min, PrevOrNone(ColMin(prevRows), prevRows))
        vmax  == CalculateVariation(current_max, PrevOrNone(ColMax(prevRows), prevRows))
    IN  [isNone |-> FALSE,
         min |-> current_min, mean |-> current_mean, max |-> current_max,
         min_delta |-> vmin[1], min_delta_pct |-> vmin[2],
         mean_delta |-> vmean[1], mean_delta_pct |-> vmean[2],
         max_delta |-> vmax[1], max_delta_pct |-> vmax[2],
         period_label |-> label]

\* the value None returned in place of a dict
NoneDict ==
    [isNone |-> TRUE,
     min |-> None, mean |-> None, max |-> None,
     min_delta |-> None, min_delta_pct |-> None,
     mean_delta |-> None, mean_delta_pct |-> None,
     max_delta |-> None, max_delta_pct |-> None,
     period_label |-> <<>>]

Pending == [status |-> "pending", exc |-> "", value |-> NoneDict]

Returned(v) == [status |-> "returned", exc |-> "", value |-> v]

Raised(e) == [status |-> "raised", exc |-> e, value |-> NoneDict]

\* ------------------------------------------- the call as a single function
\* _calculate_daily_kpis(data, particle), lines 62-107
DailyOutcome(rows) ==
    IF rows = <<>> THEN Raised("IndexError")
    ELSE IF Len(LastDayData(rows)) = 0 THEN Returned(NoneDict)
    ELSE Returned(KpiDict(LastDayData(rows), PrevDayData(rows), DayLabel(LastDayData(rows))))

\* _calculate_weekly_kpis(data, particle), lines 110-164
WeeklyOutcome(rows) ==
    LET data_daily == ResampleDaily(rows)
    IN  IF TooFewDaily(data_daily) THEN Returned(NoneDict)
        ELSE IF ~PrevWeekData(data_daily).columns THEN Raised("KeyError")
        ELSE Returned(KpiDict(LastWeekData(data_daily), PrevWeekData(data_daily).rows,
                              RangeLabel(LastWeekData(data_daily))))

\* _calculate_monthly_kpis(data, particle), lines 167-222
MonthlyOutcome(rows) ==
    LET data_weekly == ResampleWeekly(rows)
    IN  IF TooFewWeekly(data_weekly) THEN Returned(NoneDict)
        ELSE IF ~PrevMonthData(data_weekly).columns THEN Raised("KeyError")
        ELSE Returned(KpiDict(LastMonthData(data_weekly), PrevMonthData(data_weekly).rows,
                              RangeLabel(LastMonthData(data_weekly))))

\* calculate_kpis(data, particle, timeframe), lines 32-59: what the call
\* returns or raises
CalculateKpis(frame, tf) ==
    LET sorted == SortValues(Coerce(frame))
    IN  CASE Dispatch(tf) = "daily"   -> DailyOutcome(sorted)
          [] Dispatch(tf) = "weekly"  -> WeeklyOutcome(sorted)
          [] Dispatch(tf) = "monthly" -> MonthlyOutcome(sorted)
          [] OTHER                    -> Raised("ValueError")

\* ------------------------------ the copy in streamlit_App/dashboard.py
\* _calculate_variation, dashboard.py lines 307-315
DashCalculateVariation(current_val, previous_val) ==
    IF previous_val.k = "none" \/ IsNa(previous_val) \/ FIsZero(previous_val)
    THEN <<None, None>>
    ELSE LET delta == FSub(current_val, previous_val)
         IN  <<delta, FMul(FDiv(delta, previous_val), Num(100))>>

\* the statistics, variations and dict of dashboard.py lines 154-189,
\* 211-247 and 269-305; the previous statistic is passed only when the
\* comparison window has rows
DashKpiDict(curRows, prevRows, label) ==
    LET prevArg(x) == IF Len(prevRows) > 0 THEN x ELSE None
        vmean == DashCalculateVariation(ColMean(curRows), prevArg(ColMean(prevRows)))
        vmin  == DashCalculateVariation(ColMin(curRows), prevArg(ColMin(prevRows)))
        vmax  == DashCalculateVariation(ColMax(curRows), prevArg(ColMax(prevRows)))
    IN  [isNone |-> FALSE,
         min |-> ColMin(curRows), mean |-> ColMean(curRows), max |-> ColMax(curRows),
         min_delta |-> vmin[1], min_delta_pct |-> vmin[2],
         mean_delta |-> vmean[1], mean_delta_pct |-> vmean[2],
         max_delta |-> vmax[1], max_delta_pct |-> vmax[2],
         period_label |-> label]

\* _calculate_daily_kpis, dashboard.py lines 144-189
DashDailyKpis(rows) ==
    IF rows = <<>> THEN Raised("IndexError")
    ELSE LET last_date     == rows[Len(rows)].timestamp.date
             last_day_data == SelectSeq(rows, LAMBDA r : r.timestamp.date = last_date)
             prev_day_data == SelectSeq(rows, LAMBDA r : r.timestamp.date = last_date - 1)
         IN  IF Len(last_day_data) = 0 THEN Returned(NoneDict)
             ELSE Returned(DashKpiDict(last_day_data, prev_day_data, CivilFromDays(last_date)))

\* _calculate_weekly_kpis, dashboard.py lines 191-247
DashWeeklyKpis(rows) ==
    LET data_daily == ResampleDaily(rows)
        n == Len(data_daily)
        last_week_data == TailRows(data_daily, Min2(7, n))
    IN  IF n < 2 THEN Returned(NoneDict)
        ELSE IF n >= 14
             THEN Returned(DashKpiDict(last_week_data, ILocNeg(data_daily, 14, 7),
                                       DayMonth(MinDate(last_week_data)) \o DayMonth(MaxDate(last_week_data))))
        ELSE IF n >= 8
             THEN Returned(DashKpiDict(last_week_data, ILocNeg(data_daily, 8, 1),
                                       DayMonth(MinDate(last_week_data)) \o DayMonth(MaxDate(last_week_data))))
        ELSE Raised("KeyError")

\* _calculate_monthly_kpis, dashboard.py lines 249-305
DashMonthlyKpis(rows) ==
    LET data_weekly == ResampleWeekly(rows)
        n == Len(data_weekly)
        last_month_data == TailRows(data_weekly, Min2(4, n))
    IN  IF n < 2 THEN Returned(NoneDict)
        ELSE IF n >= 8
             THEN Returned(DashKpiDict(last_month_data, ILocNeg(data_weekly, 8, 4),
                                       DayMonth(MinDate(last_month_data)) \o DayMonth(MaxDate(last_month_data))))
        ELSE IF n >= 5
             THEN Returned(DashKpiDict(last_month_data, ILocNeg(data_weekly, 5, 1),
                                       DayMonth(MinDate(last_month_data)) \o DayMonth(MaxDate(last_month_data))))
        ELSE Raised("KeyError")

\* calculate_kpis, dashboard.py lines 115-142
DashCalculateKpis(frame, tf) ==
    LET typed == IF frame.dtype = "datetime64" THEN frame.rows
                 ELSE [i \in DOMAIN frame.rows |->
                         [timestamp |-> ToDatetime(frame.rows[i].timestamp),
                          val |-> frame.rows[i].val]]
        sorted == SortValues(typed)
    IN  IF tf = "D" THEN DashDailyKpis(sorted)
        ELSE IF tf = "W" THEN DashWeeklyKpis(sorted)
        ELSE IF tf = "M" THEN DashMonthlyKpis(sorted)
        ELSE Raised("ValueError")

\* ------------------------------------------------------------------- Init
Init ==
    /\ \/ \E rows \in SeqsUpTo(EpochRows, MaxLen) : data_arg = [dtype |-> "int64", rows |-> rows]
       \/ \E rows \in SeqsUpTo(DatetimeRows, MaxLen) : data_arg = [dtype |-> "datetime64", rows |-> rows]
    /\ timeframe \in Timeframes
    /\ pc = "start"
    /\ data = data_arg.rows
    /\ buckets = <<>>
    /\ cur = EmptyDataFrame
    /\ prev = EmptyDataFrame
    /\ outcome = Pending

\* ---------------------------------------------------------------- actions
\* calculate_kpis lines 45-50: coerce the timestamps on a copy, then sort
Normalize ==
    /\ pc = "start"
    /\ data' = SortValues(Coerce(data_arg))
    /\ data_arg' = ArgAfterCoerce(data_arg)
    /\ pc' = "sorted"
    /\ UNCHANGED <<timeframe, buckets, cur, prev, outcome>>

\* calculate_kpis lines 58-59
InvalidTimeframe ==
    /\ pc = "sorted"
    /\ Dispatch(timeframe) = "ValueError"
    /\ outcome' = Raised("ValueError")
    /\ pc' = "done"
    /\ UNCHANGED <<data_arg, timeframe, data, buckets, cur, prev>>

\* _calculate_daily_kpis lines 65-78: .iloc[-1] of an empty column raises
DailySelect ==
    /\ pc = "sorted"
    /\ Dispatch(timeframe) = "daily"
    /\ IF data = <<>>
       THEN /\ outcome' = Raised("IndexError")
            /\ pc' = "done"
            /\ UNCHANGED <<cur, prev>>
       ELSE IF Len(LastDayData(data)) = 0
       THEN /\ outcome' = Returned(NoneDict)
            /\ pc' = "done"
            /\ UNCHANGED <<cur, prev>>
       ELSE /\ cur' = Frame(LastDayData(data))
            /\ prev' = Frame(PrevDayData(data))
            /\ pc' = "windowed"
            /\ UNCHANGED outcome
    /\ UNCHANGED <<data_arg, timeframe, data, buckets>>

\* _calculate_daily_kpis lines 72-107
DailyKpis ==
    /\ pc = "windowed"
    /\ Dispatch(timeframe) = "daily"
    /\ outcome' = Returned(KpiDict(cur.rows, prev.rows, DayLabel(cur.rows)))
    /\ pc' = "done"
    /\ UNCHANGED <<data_arg, timeframe, data, buckets, cur, prev>>

\* _calculate_weekly_kpis lines 113-116
WeeklyAggregate ==
    /\ pc = "sorted"
    /\ Dispatch(timeframe) = "weekly"
    /\ buckets' = ResampleDaily(data)
    /\ IF TooFewDaily(buckets')
       THEN outcome' = Returned(NoneDict) /\ pc' = "done"
       ELSE pc' = "aggregated" /\ UNCHANGED outcome
    /\ UNCHANGED <<data_arg, timeframe, data, cur, prev>>

\* _calculate_weekly_kpis lines 119-127
WeeklySelect ==
    /\ pc = "aggregated"
    /\ Dispatch(timeframe) = "weekly"
    /\ cur' = Frame(LastWeekData(buckets))
    /\ prev' = PrevWeekData(buckets)
    /\ pc' = "windowed"
    /\ UNCHANGED <<data_arg, timeframe, data, buckets, outcome>>

\* _calculate_weekly_kpis lines 130-164: prev_week_data[particle] raises
\* KeyError on a frame without columns
WeeklyKpis ==
    /\ pc = "windowed"
    /\ Dispatch(timeframe) = "weekly"
    /\ outcome' = IF prev.columns
                  THEN Returned(KpiDict(cur.rows, prev.rows, RangeLabel(cur.rows)))
                  ELSE Raised("KeyError")
    /\ pc' = "done"
    /\ UNCHANGED <<data_arg, timeframe, data, buckets, cur, prev>>

\* _calculate_monthly_kpis lines 170-173
MonthlyAggregate ==
    /\ pc = "sorted"
    /\ Dispatch(timeframe) = "monthly"
    /\ buckets' = ResampleWeekly(data)
    /\ IF TooFewWeekly(buckets')
       THEN outcome' = Returned(NoneDict) /\ pc' = "done"
       ELSE pc' = "aggregated" /\ UNCHANGED outcome
    /\ UNCHANGED <<data_arg, timeframe, data, cur, prev>>

\* _calculate_monthly_kpis lines 176-184
MonthlySelect ==
    /\ pc = "aggregated"
    /\ Dispatch(timeframe) = "monthly"
    /\ cur' = Frame(LastMonthData(buckets))
    /\ prev' = PrevMonthData(buckets)
    /\ pc' = "windowed"
    /\ UNCHANGED <<data_arg, timeframe, data, buckets, outcome>>

\* _calculate_monthly_kpis lines 187-222
MonthlyKpis ==
    /\ pc = "windowed"
    /\ Dispatch(timeframe) = "monthly"
    /\ outcome' = IF prev.columns
                  THEN Returned(KpiDict(cur.rows, prev.rows, RangeLabel(cur.rows)))
                  ELSE Raised("KeyError")
    /\ pc' = "done"
    /\ UNCHANGED <<data_arg, timeframe, data, buckets, cur, prev>>

\* ------------------------------------------------ the call in a single step
\* calculate_kpis lines 32-59 run to completion
Call ==
    /\ pc = "start"
    /\ data' = SortValues(Coerce(data_arg))
    /\ outcome' = CalculateKpis(data_arg, timeframe)
    /\ data_arg' = ArgAfterCoerce(data_arg)
    /\ pc' = "done"
    /\ UNCHANGED <<timeframe, buckets, cur, prev>>

NextCall == Call

SpecCall == Init /\ [][NextCall]_vars

\* ------------------------------------------- the single-day scenario (day)
\* Rows of the daily scenario: five points 1..5 on 1970-01-21 (date 20) and
\* one point on the day before.
DailyEpochRows ==
    { [timestamp |-> 20 * DaySeconds,         val |-> Num(1)],
      [timestamp |-> 20 * DaySeconds + 3600,  val |-> Num(2)],
      [timestamp |-> 20 * DaySeconds + 7200,  val |-> Num(3)],
      [timestamp |-> 20 * DaySeconds + 10800, val |-> Num(4)],
      [timestamp |-> 20 * DaySeconds + 14400, val |-> Num(5)],
      [timestamp |-> 19 * DaySeconds + 80000, val |-> Num(10)] }

DailyDatetimeRows == { [timestamp |-> ToDatetime(r.timestamp), val |-> r.val] : r \in DailyEpochRows }

\* calculate_kpis(data, particle, 'D') on a series of the daily scenario
InitDaily ==
    /\ \/ \E rows \in SeqsUpTo(DailyEpochRows, MaxDayLen) : data_arg = [dtype |-> "int64", rows |-> rows]
       \/ \E rows \in SeqsUpTo(DailyDatetimeRows, MaxDayLen) : data_arg = [dtype |-> "datetime64", rows |-> rows]
    /\ timeframe = "D"
    /\ pc = "start"
    /\ data = data_arg.rows
    /\ buckets = <<>>
    /\ cur = EmptyDataFrame
    /\ prev = EmptyDataFrame
    /\ outcome = Pending

NextDaily ==
    \/ Normalize
    \/ DailySelect
    \/ DailyKpis

SpecDaily == InitDaily /\ [][NextDaily]_vars

\* The aggregation step alone: the calls with week or month granularity, up
\* to the bucket series that resample(...).mean() yields (lines 113, 170).
InitAggregate == Init /\ timeframe \in {"W", "M"}

NextAggregate ==
    \/ Normalize
    \/ WeeklyAggregate
    \/ MonthlyAggregate

SpecAggregate == InitAggregate /\ [][NextAggregate]_vars

Next ==
    \/ Normalize
    \/ InvalidTimeframe
    \/ DailySelect
    \/ DailyKpis
    \/ WeeklyAggregate
    \/ WeeklySelect
    \/ WeeklyKpis
    \/ MonthlyAggregate
    \/ MonthlySelect
    \/ MonthlyKpis

Spec == Init /\ [][Next]_vars

\* ================================================================= claims
Recognized == {"D", "W", "M"}

\* the three statistics with, for each, its delta fields and its reduction
Stats == {"min", "mean", "max"}

StatOf(s, rows) == CASE s = "min" -> ColMin(rows) [] s = "mean" -> ColMean(rows) [] OTHER -> ColMax(rows)

DeltaOf(s, kpi) == CASE s = "min" -> kpi.min_delta [] s = "mean" -> kpi.mean_delta [] OTHER -> kpi.max_delta

DeltaPctOf(s, kpi) == CASE s = "min" -> kpi.min_delta_pct [] s = "mean" -> kpi.mean_delta_pct [] OTHER -> kpi.max_delta_pct

ValueOf(s, kpi) == CASE s = "min" -> kpi.min [] s = "mean" -> kpi.mean [] OTHER -> kpi.max

AllDeltasNull(kpi) == \A s \in Stats : DeltaOf(s, kpi) = None /\ DeltaPctOf(s, kpi) = None

ReturnedDict == outcome.status = "returned" /\ ~outcome.value.isNone

Dates(rows) == { rows[i].timestamp.date : i \in DOMAIN rows }

\* C1: with week granularity and 2 <= N < 8 daily buckets, or month
\* granularity and 2 <= N < 5 weekly buckets, the call does not fail: it
\* returns the current window's min, mean and max with all six deltas null.
C1_ShortHistoryReturnsStats ==
    (/\ pc = "done"
     /\ \/ timeframe = "W" /\ Len(buckets) >= 2 /\ Len(buckets) < 8
        \/ timeframe = "M" /\ Len(buckets) >= 2 /\ Len(buckets) < 5)
    => /\ ReturnedDict
       /\ \A s \in Stats : ValueOf(s, outcome.value) = StatOf(s, cur.rows)
       /\ AllDeltasNull(outcome.value)

\* C2: for an empty series the call returns None for each of D, W and M and
\* never raises.
C2_EmptySeriesReturnsNone ==
    (pc = "done" /\ data_arg.rows = <<>> /\ timeframe \in Recognized)
    => outcome = Returned(NoneDict)

\* C3: for every granularity code other than D, W and M and for every
\* series, the empty one included, the call raises ValueError; it never
\* returns a dict or None and never enters a granularity branch.
C3_InvalidGranularityRaises ==
    (timeframe \notin Recognized)
    => /\ pc \in {"start", "sorted", "done"}
       /\ outcome.status # "returned"
       /\ pc = "done" => outcome = Raised("ValueError")
       /\ buckets = <<>> /\ cur = EmptyDataFrame /\ prev = EmptyDataFrame

C3_Witness ==
    /\ pc = "done"
    /\ timeframe = "Q"
    /\ data_arg.rows = <<>>
    /\ outcome = Raised("ValueError")

\* C4: for a non-empty series, day granularity never raises and never
\* returns None: the current window always holds the chronologically last
\* record, and only records of that record's day.
C4_DailyNeverNull ==
    (timeframe = "D" /\ data_arg.rows # <<>>)
    => /\ outcome.status # "raised"
       /\ outcome.status = "returned" => ~outcome.value.isNone
       /\ pc = "done" => ReturnedDict
       /\ pc \in {"windowed", "done"}
            => /\ cur.rows # <<>>
               /\ cur.rows[Len(cur.rows)] = data[Len(data)]
               /\ Dates(cur.rows) = {data[Len(data)].timestamp.date}

C4_Witness ==
    /\ pc = "done"
    /\ timeframe = "D"
    /\ Len(data_arg.rows) >= 2
    /\ Cardinality(Dates(data)) >= 2
    /\ ReturnedDict

\* C5: week granularity, N >= 2 daily buckets: the current window is the
\* last min(7, N) buckets; the comparison window is buckets [N-14, N-7)
\* when N >= 14, seven buckets all earlier than and adjacent to the current
\* window, and buckets [N-8, N-1) when 8 <= N < 14 (0-based, end-exclusive).
C5_WeekWindows ==
    (timeframe = "W" /\ (pc = "windowed" \/ (pc = "done" /\ Len(buckets) >= 2)))
    => LET N == Len(buckets)
           k == IF N < 7 THEN N ELSE 7
       IN  /\ N >= 2
           /\ Len(cur.rows) = k
           /\ \A i \in 1..k : cur.rows[i] = buckets[N - k + i]
           /\ N >= 14 =>
                /\ prev.columns /\ Len(prev.rows) = 7
                /\ \A i \in 1..7 : prev.rows[i] = buckets[N - 14 + i]
                /\ \A i \in 1..7 : \A j \in 1..k :
                      prev.rows[i].timestamp.date < cur.rows[j].timestamp.date
                /\ prev.rows[7].timestamp.date + 1 = cur.rows[1].timestamp.date
           /\ (N >= 8 /\ N < 14) =>
                /\ prev.columns /\ Len(prev.rows) = 7
                /\ \A i \in 1..7 : prev.rows[i] = buckets[N - 8 + i]
           /\ N = 10 =>
                /\ cur.rows = SubSeq(buckets, 4, 10)
                /\ prev.rows = SubSeq(buckets, 3, 9)

C5_Witness ==
    /\ timeframe = "W"
    /\ pc = "windowed"
    /\ Len(buckets) = 10
    /\ \E i \in 1..7 : IsNum(prev.rows[i].val)

\* C6: month granularity, N >= 2 weekly buckets: the current window is the
\* last min(4, N) buckets; the comparison window is buckets [N-8, N-4) when
\* N >= 8, four buckets all earlier than the current window and sharing none
\* with it, and buckets [N-5, N-1) when 5 <= N < 8.
C6_MonthWindows ==
    (timeframe = "M" /\ (pc = "windowed" \/ (pc = "done" /\ Len(buckets) >= 2)))
    => LET N == Len(buckets)
           k == IF N < 4 THEN N ELSE 4
       IN  /\ N >= 2
           /\ Len(cur.rows) = k
           /\ \A i \in 1..k : cur.rows[i] = buckets[N - k + i]
           /\ N >= 8 =>
                /\ prev.columns /\ Len(prev.rows) = 4
                /\ \A i \in 1..4 : prev.rows[i] = buckets[N - 8 + i]
                /\ \A i \in 1..4 : \A j \in 1..k :
                      prev.rows[i].timestamp.date < cur.rows[j].timestamp.date
                /\ Dates(prev.rows) \cap Dates(cur.rows) = {}
           /\ (N >= 5 /\ N < 8) =>
                /\ prev.columns /\ Len(prev.rows) = 4
                /\ \A i \in 1..4 : prev.rows[i] = buckets[N - 5 + i]

C6_Witness ==
    /\ timeframe = "M"
    /\ pc = "windowed"
    /\ Len(buckets) >= 8
    /\ \E i \in 1..4 : IsNum(prev.rows[i].val)

\* C7: the call returns None without raising when, for week granularity,
\* the series aggregates to fewer than 2 daily buckets and when, for month
\* granularity, it aggregates to fewer than 2 weekly buckets; in particular
\* for a non-empty series whose records all fall on one day.
C7_TooFewBucketsReturnsNone ==
    (pc = "done" /\ timeframe \in {"W", "M"})
    => /\ Len(buckets) < 2 => outcome = Returned(NoneDict)
       /\ Cardinality(Dates(data)) <= 1 => outcome = Returned(NoneDict)
       /\ (timeframe = "M" /\ Cardinality({ WeekLabel(d) : d \in Dates(data) }) <= 1)
            => outcome = Returned(NoneDict)

C7_Witness ==
    /\ pc = "done"
    /\ timeframe = "M"
    /\ Cardinality(Dates(data)) >= 2
    /\ Len(buckets) = 1
    /\ outcome = Returned(NoneDict)

\* the period of a calendar day under the aggregation of a granularity:
\* the day itself for "W" (daily buckets), its week label for "M"
PeriodOf(tf, date) == IF tf = "W" THEN date ELSE WeekLabel(date)

PeriodStep(tf) == IF tf = "W" THEN 1 ELSE 7

PeriodsWithData(tf, rows) == { PeriodOf(tf, d) : d \in Dates(rows) }

SetMin(S) == CHOOSE x \in S : \A y \in S : x <= y

SetMax(S) == CHOOSE x \in S : \A y \in S : x >= y

\* C8 as stated: aggregation emits a bucket only for a period holding at
\* least one record, so the bucket count is the number of periods with data.
C8_EmptyPeriodsOmitted ==
    (timeframe \in {"W", "M"} /\ pc \in {"aggregated", "windowed", "done"})
    => /\ \A i \in DOMAIN buckets :
            buckets[i].timestamp.date \in PeriodsWithData(timeframe, data)
       /\ Len(buckets) = Cardinality(PeriodsWithData(timeframe, data))

\* C8 amended: aggregation emits one bucket for every period from the first
\* record's period through the last record's period, in order; the bucket of
\* a period without records holds NaN, every other bucket a number; the
\* bucket count is the number of periods spanned.
C8_BucketsSpanEveryPeriod ==
    (timeframe \in {"W", "M"} /\ pc \in {"aggregated", "windowed", "done"})
    => IF data = <<>> THEN buckets = <<>>
       ELSE LET P     == PeriodsWithData(timeframe, data)
                first == SetMin(P)
                last  == SetMax(P)
                step  == PeriodStep(timeframe)
            IN  /\ Len(buckets) = (last - first) \div step + 1
                /\ \A i \in DOMAIN buckets :
                     /\ buckets[i].timestamp = [date |-> first + step * (i - 1), time |-> 0]
                     /\ IsNum(buckets[i].val) <=> buckets[i].timestamp.date \in P
                     /\ ~IsNum(buckets[i].val) => buckets[i].val = NaN

C8_Witness ==
    /\ timeframe = "W"
    /\ pc = "aggregated"
    /\ \E i \in DOMAIN buckets : buckets[i].val = NaN
    /\ Len(buckets) > Cardinality(Dates(data))

\* the value a granularity branch passes as previous_val for a statistic
PreviousArg(s) == PrevOrNone(StatOf(s, prev.rows), prev.rows)

Degenerate(p) == p = None \/ p = NaN \/ p = Num(0)

\* C9: _calculate_variation returns (None, None) for every current value
\* whenever previous is None, NaN or exactly zero.
C9_NullOnDegenerateBaseline ==
    (pc = "done" /\ ReturnedDict)
    => /\ \A s \in Stats :
            Degenerate(PreviousArg(s))
            => DeltaOf(s, outcome.value) = None /\ DeltaPctOf(s, outcome.value) = None
       /\ \A c \in { StatOf(s, cur.rows) : s \in Stats } \cup {NaN, Num(0)} :
            \A p \in {None, NaN, Num(0)} \cup { q \in { PreviousArg(s) : s \in Stats } : Degenerate(q) } :
               CalculateVariation(c, p) = <<None, None>>

C9_Witness ==
    /\ pc = "done"
    /\ ReturnedDict
    /\ prev.rows # <<>>
    /\ PreviousArg("mean") = Num(0)
    /\ outcome.value.mean_delta = None
    /\ outcome.value.mean_delta_pct = None

\* C10: for each granularity and each statistic s, when the comparison
\* window is non-empty and its statistic prev_s is a non-zero number, the
\* result has s = cur_s, s_delta = cur_s - prev_s and
\* s_delta_pct = 100 * (cur_s - prev_s) / prev_s.
C10_DeltaAndPercent ==
    (pc = "done" /\ ReturnedDict)
    => \A s \in Stats :
          LET c == StatOf(s, cur.rows)
              p == StatOf(s, prev.rows)
              delta == DeltaOf(s, outcome.value)
              pct   == DeltaPctOf(s, outcome.value)
          IN  (prev.rows # <<>> /\ IsNum(p) /\ p.n # 0)
              => /\ ValueOf(s, outcome.value) = c
                 /\ IsNum(c) /\ IsNum(delta) /\ IsNum(pct)
                 /\ delta.n * c.d * p.d = (c.n * p.d - p.n * c.d) * delta.d
                 /\ pct.n * p.n * delta.d = 100 * delta.n * p.d * pct.d

C10_Witness ==
    /\ pc = "done"
    /\ ReturnedDict
    /\ timeframe = "W"
    /\ outcome.value.mean = Num(110)
    /\ StatOf("mean", prev.rows) = Num(100)
    /\ outcome.value.mean_delta = Num(10)
    /\ outcome.value.mean_delta_pct = Num(10)

\* calendar day of row i of the caller's frame, in either representation
ArgDate(frame, i) ==
    IF frame.dtype = "int64" THEN frame.rows[i].timestamp \div DaySeconds
    ELSE frame.rows[i].timestamp.date

\* indices of the caller's rows dated `date`
ArgRowsOn(frame, date) == { i \in DOMAIN frame.rows : ArgDate(frame, i) = date }

ArgLastDate(frame) == SetMax({ ArgDate(frame, i) : i \in DOMAIN frame.rows })

RECURSIVE SumVals(_, _)
SumVals(frame, I) ==
    IF I = {} THEN Num(0)
    ELSE LET i == CHOOSE j \in I : TRUE
         IN  FAdd(frame.rows[i].val, SumVals(frame, I \ {i}))

\* C11: day granularity: min, mean and max of the result are the minimum,
\* the arithmetic mean and the maximum of the column over exactly the records
\* dated as the chronologically last record; five points 1..5 on a single day
\* give min 1, mean 3, max 5 and all deltas null.
C11_DailyStatsOfLastDate ==
    (timeframe = "D" /\ pc = "done" /\ data_arg.rows # <<>>)
    => LET I == ArgRowsOn(data_arg, ArgLastDate(data_arg))
           kpi == outcome.value
       IN  /\ ReturnedDict
           /\ \E i \in I : kpi.min = data_arg.rows[i].val
           /\ \A i \in I : ~FLess(data_arg.rows[i].val, kpi.min)
           /\ \E i \in I : kpi.max = data_arg.rows[i].val
           /\ \A i \in I : ~FLess(kpi.max, data_arg.rows[i].val)
           /\ FMul(kpi.mean, Num(Cardinality(I))) = SumVals(data_arg, I)
           /\ ({ data_arg.rows[i].val : i \in DOMAIN data_arg.rows } = { Num(v) : v \in 1..5 }
               /\ Len(data_arg.rows) = 5)
              => /\ kpi.min = Num(1) /\ kpi.mean = Num(3) /\ kpi.max = Num(5)
                 /\ AllDeltasNull(kpi)

C11_Witness ==
    /\ timeframe = "D"
    /\ pc = "done"
    /\ Len(data_arg.rows) = 5
    /\ { data_arg.rows[i].val : i \in DOMAIN data_arg.rows } = { Num(v) : v \in 1..5 }
    /\ outcome.value.min = Num(1)
    /\ outcome.value.mean = Num(3)
    /\ outcome.value.max = Num(5)
    /\ AllDeltasNull(outcome.value)
    /\ outcome.value.period_label = <<21, 1, 1970>>

\* C12: day granularity: the comparison window is exactly the records dated
\* one calendar day before the last record's date; when no record has that
\* date all six delta fields are null, also when earlier days hold records.
C12_DailyComparisonWindow ==
    (timeframe = "D" /\ pc \in {"windowed", "done"} /\ data_arg.rows # <<>>)
    => LET last == ArgLastDate(data_arg)
           J    == ArgRowsOn(data_arg, last - 1)
       IN  /\ Len(prev.rows) = Cardinality(J)
           /\ \A k \in DOMAIN prev.rows : prev.rows[k].timestamp.date = last - 1
           /\ \A i \in J : \E k \in DOMAIN prev.rows : prev.rows[k].val = data_arg.rows[i].val
           /\ (pc = "done" /\ J = {}) => (ReturnedDict /\ AllDeltasNull(outcome.value))

C12_Witness ==
    /\ timeframe = "D"
    /\ pc = "done"
    /\ Len(data_arg.rows) >= 2
    /\ Cardinality(Dates(data)) >= 2
    /\ ArgRowsOn(data_arg, ArgLastDate(data_arg) - 1) = {}
    /\ ReturnedDict
    /\ AllDeltasNull(outcome.value)

\* rows of the normalized series dated within the 7 days that start at `start`
RowsFrom(rows, start) ==
    SelectSeq(rows, LAMBDA r : start <= r.timestamp.date /\ r.timestamp.date <= start + 6)

\* C13: the weekly buckets of month granularity are 7-day spans running from
\* a Monday through the following Sunday, every record lies in exactly one
\* bucket, and each bucket is keyed by the Monday that begins its span.
C13_MondayToSundayWeeks ==
    (timeframe = "M" /\ pc \in {"aggregated", "windowed", "done"} /\ data # <<>>)
    => /\ \A i \in DOMAIN buckets : Weekday(buckets[i].timestamp.date) = 0
       /\ \A k \in DOMAIN data :
            Cardinality({ i \in DOMAIN buckets :
                            /\ buckets[i].timestamp.date <= data[k].timestamp.date
                            /\ data[k].timestamp.date <= buckets[i].timestamp.date + 6 }) = 1
       /\ \A i \in DOMAIN buckets :
            buckets[i].val = ColMean(RowsFrom(data, buckets[i].timestamp.date))

\* the series with rows i and i + 1 exchanged
SwapAdjacent(rows, i) ==
    [k \in DOMAIN rows |-> IF k = i THEN rows[i + 1] ELSE IF k = i + 1 THEN rows[i] ELSE rows[k]]

\* C14: the outcome of the call (dict, None or exception) does not depend on
\* the order of the caller's rows, for each granularity code: exchanging any
\* two neighbouring rows of the series leaves the outcome as it is.  Every
\* series over the input rows is an initial state and every reordering is a
\* chain of such exchanges, so all reorderings of a series share one outcome.
C14_OrderIndependent ==
    (pc = "done")
    => \A i \in 1..(Len(data_arg.rows) - 1) :
          CalculateKpis([dtype |-> data_arg.dtype, rows |-> SwapAdjacent(data_arg.rows, i)],
                        timeframe) = outcome

C14_Witness ==
    /\ pc = "done"
    /\ timeframe = "W"
    /\ Len(data_arg.rows) = 3
    /\ data_arg.dtype = "int64"
    /\ data_arg.rows[1].timestamp > data_arg.rows[2].timestamp
    /\ data_arg.rows[2].timestamp > data_arg.rows[3].timestamp
    /\ ReturnedDict

\* C15: the call never mutates the caller's series: every step, whether the
\* call ends with a dict, with None or with an exception and whether or not
\* the timestamps are coerced from epoch numbers, leaves the caller's frame
\* with the same timestamp representation and the same rows in the same order.
C15_InputUnchanged ==
    [][data_arg'.dtype = data_arg.dtype /\ data_arg'.rows = data_arg.rows]_vars

C15_Witness ==
    /\ pc = "done"
    /\ data_arg.dtype = "int64"
    /\ Len(data_arg.rows) = 2
    /\ data_arg.rows[1].timestamp > data_arg.rows[2].timestamp
    /\ data[1].timestamp = ToDatetime(data_arg.rows[2].timestamp)
    /\ outcome.status = "returned"

KpiFields ==
    {"min", "mean", "max", "min_delta", "min_delta_pct", "mean_delta", "mean_delta_pct",
     "max_delta", "max_delta_pct", "period_label"}

\* C16: no partial result: when the call returns a dict for a series whose
\* column has a value in every record, the dict holds all ten fields, its
\* min, mean and max are numbers, and each delta pair is two numbers or two
\* nulls; the current window ends with the bucket of the last record, which
\* holds data.
C16_NoPartialResult ==
    (pc = "done" /\ ReturnedDict /\ \A i \in DOMAIN data : IsNum(data[i].val))
    => LET kpi == outcome.value
       IN  /\ DOMAIN kpi = KpiFields \cup {"isNone"}
           /\ IsNum(kpi.min) /\ IsNum(kpi.mean) /\ IsNum(kpi.max)
           /\ ~FLess(kpi.mean, kpi.min) /\ ~FLess(kpi.max, kpi.mean)
           /\ kpi.period_label # <<>>
           /\ \A s \in Stats :
                \/ DeltaOf(s, kpi) = None /\ DeltaPctOf(s, kpi) = None
                \/ IsNum(DeltaOf(s, kpi)) /\ IsNum(DeltaPctOf(s, kpi))
           /\ cur.rows # <<>>
           /\ IsNum(cur.rows[Len(cur.rows)].val)
           /\ timeframe = "D" => cur.rows[Len(cur.rows)] = data[Len(data)]
           /\ timeframe \in {"W", "M"} =>
                cur.rows[Len(cur.rows)].timestamp.date
                    = PeriodOf(timeframe, data[Len(data)].timestamp.date)

C16_Witness ==
    /\ pc = "done"
    /\ ReturnedDict
    /\ timeframe = "W"
    /\ \E i \in DOMAIN cur.rows : cur.rows[i].val = NaN
    /\ Cardinality({ i \in DOMAIN cur.rows : IsNum(cur.rows[i].val) }) = 1
    /\ IsNum(outcome.value.min)
    /\ IsNum(outcome.value.mean_delta)

\* C17: the copy of the KPI logic in streamlit_App/dashboard.py and the one
\* in src/processor.py give the same outcome for every series and every
\* granularity code: the same dict field by field, the same None or the same
\* exception, with the same variation rule.
C17_CopiesEquivalent ==
    (pc = "done")
    => /\ outcome = DashCalculateKpis(data_arg, timeframe)
       /\ ReturnedDict =>
            \A s \in Stats :
               DashCalculateVariation(StatOf(s, cur.rows), PreviousArg(s))
                   = <<DeltaOf(s, outcome.value), DeltaPctOf(s, outcome.value)>>

C17_Witness ==
    /\ pc = "done"
    /\ timeframe = "M"
    /\ ReturnedDict
    /\ IsNum(outcome.value.mean_delta)
    /\ outcome.value.mean_delta # Num(0)
    /\ DashCalculateKpis(data_arg, timeframe).value.mean_delta = outcome.value.mean_delta

\* timestamps (days) of the buckets of the current window that hold data
DataDates(rows) == { rows[i].timestamp.date : i \in { j \in DOMAIN rows : IsNum(rows[j].val) } }

\* C18: week and month granularity: the label is "<start day/month> - <end
\* day/month>" with start and end the timestamps of the first and the last
\* bucket of the current window that hold data, so the end never lies after
\* the date of the last record; day granularity: the label is the last
\* record's calendar date as day/month/year.
C18_LabelFromDataBuckets ==
    (pc = "done" /\ ReturnedDict)
    => LET lastDate == ArgLastDate(data_arg)
           label    == outcome.value.period_label
       IN  /\ timeframe = "D" => label = CivilFromDays(lastDate)
           /\ timeframe \in {"W", "M"} =>
                /\ label = DayMonth(SetMin(DataDates(cur.rows))) \o DayMonth(SetMax(DataDates(cur.rows)))
                /\ SetMax(DataDates(cur.rows)) <= lastDate

\* two bucket series with the same length, timestamps and values
SameBuckets(again, series) ==
    /\ Len(again) = Len(series)
    /\ \A i \in DOMAIN series :
          /\ again[i].timestamp = series[i].timestamp
          /\ again[i].val = series[i].val

\* C19: aggregation is idempotent: re-aggregating the daily buckets with the
\* day rule, or the weekly buckets with the 'W-MON' rule, yields the same
\* bucket series: same timestamps, same number of buckets, same values.
C19_AggregationIdempotent ==
    (pc = "aggregated")
    => /\ timeframe = "W" => LET again == ResampleDaily(buckets) IN SameBuckets(again, buckets)
       /\ timeframe = "M" => LET again == ResampleWeekly(buckets) IN SameBuckets(again, buckets)

\* weekly buckets, one of them without data, re-aggregated
C19_Witness ==
    /\ timeframe = "M"
    /\ pc = "aggregated"
    /\ Len(buckets) >= 3
    /\ \E i \in DOMAIN buckets : IsNa(buckets[i].val)
    /\ \E i \in DOMAIN buckets : IsNum(buckets[i].val)
    /\ ResampleWeekly(buckets) = buckets

====
